---------------------------- MODULE Spec2Model ----------------------------
(***************************************************************************)
(* State-machine model of the predictive-maintenance backend (trial.py).   *)
(*                                                                         *)
(* Numbers that the program handles as floats are kept as fixed-point      *)
(* integers in tenths (90.0 is 900), which is exact for every reading with *)
(* one decimal place.  A Python dict is a function whose DOMAIN is the set *)
(* of keys present.  A Python str that is searched or lower-cased is a     *)
(* sequence of one-character strings.  An optional result (find_one) is a  *)
(* sequence of length 0 or 1.                                              *)
(***************************************************************************)
EXTENDS Integers, Sequences, FiniteSets, TLC

VARIABLES
    workflow_collection,     \* db["maintenance_workflow"]: the stored documents
    appointment_collection,  \* db["appointments"]: the stored documents, in insertion order
    pc,                      \* per request slot: the await point the coroutine is suspended at
    frame,                   \* per request slot: the coroutine's local variables
    response,                \* the HTTP response most recently sent
    now                      \* the wall clock (datetime.utcnow), a logical counter

vars == <<workflow_collection, appointment_collection, pc, frame, response, now>>

-----------------------------------------------------------------------------
(* Bounds of the model *)

\* Telemetry evaluations started in the concurrent specification.
MaxRuns == 3
\* Telemetry evaluations started in the sequential specification.
MaxSeqRuns == 3
\* Telemetry evaluations started in the question-answering specification.
MaxQueryRuns == 2
\* Telemetry evaluations started in the analytics specification.
MaxHistory == 7
\* Half-width, in tenths, of the window of sensor values tried around each threshold.
Span == 3

\* The request slots: two requests may be in flight at once.
Procs == {"r1", "r2"}

-----------------------------------------------------------------------------
(* Dictionaries *)

Has(d, k) == k \in DOMAIN d

\* dict.get(k, default)
Get(d, k, default) == IF k \in DOMAIN d THEN d[k] ELSE default

\* d[k] = v on a copy of d
Put(d, k, v) == [x \in (DOMAIN d) \cup {k} |-> IF x = k THEN v ELSE d[x]]

EmptyDict == [x \in {} |-> 0]

-----------------------------------------------------------------------------
(* Program constants *)

FIXED_VEHICLE_ID == "V101"

\* An engine temperature arrives as a string: its number (tenths) and
\* whether it carries the degree-Celsius unit suffix.
TempStr(n, unit) == [num |-> n, unit |-> unit]

\* A string in a place that may also hold an engine temperature string.
Text(t) == [text |-> t]

\* float(s.replace(unit, "")): the suffix is dropped, the number parsed.
ParseEngineTemp(s) == s.num

\* Rounding to the nearest integer where the code truncates.
IntTrunc_Rounding(num, den) == (2 * num + den) \div (2 * den)

\* int(x) of the float num/den: truncation toward zero.
IntTrunc(num, den) ==
    IF num >= 0 THEN num \div den ELSE -((-num) \div den)

-----------------------------------------------------------------------------
(* Threshold evaluation: run_maintenance, lines 200-235 *)

EngineIssue ==
    [name |-> "Engine Temperature High", severity |-> "high",
     confidence |-> 90, recommended_action |-> "Check cooling system"]

OilIssue ==
    [name |-> "Oil Pressure Low", severity |-> "high",
     confidence |-> 85, recommended_action |-> "Check oil level"]

BatteryIssue ==
    [name |-> "Battery Voltage Low", severity |-> "medium",
     confidence |-> 75, recommended_action |-> "Recharge or replace battery"]

TireIssue ==
    [name |-> "Tire Pressure Low", severity |-> "medium",
     confidence |-> 70, recommended_action |-> "Inflate tires"]

engine_temp(telemetry) ==
    ParseEngineTemp(Get(telemetry, "engineTemp", TempStr(900, FALSE)))

\* The engine rule with the threshold itself included.
EngineRule_Inclusive(telemetry) ==
    IF engine_temp(telemetry) >= 1000 THEN <<EngineIssue>> ELSE <<>>

EngineRule(telemetry) ==
    IF engine_temp(telemetry) > 1000 THEN <<EngineIssue>> ELSE <<>>

OilRule(telemetry) ==
    IF Get(telemetry, "oilPressure", 300) < 200 THEN <<OilIssue>> ELSE <<>>

BatteryRule(telemetry) ==
    IF Get(telemetry, "batteryVoltage", 126) < 120 THEN <<BatteryIssue>> ELSE <<>>

TireRule(telemetry) ==
    IF Get(telemetry, "tirePressure", 320) < 300 THEN <<TireIssue>> ELSE <<>>

\* issues after the four appends, in the order the code appends them
DetectIssues(telemetry) ==
    EngineRule(telemetry) \o OilRule(telemetry)
        \o BatteryRule(telemetry) \o TireRule(telemetry)

-----------------------------------------------------------------------------
(* Message composition: run_maintenance, lines 238-247, 269, 296 *)

\* ", ".join(f"{name} -- {severity}") or the fixed text
diagnosis_text(issues) ==
    IF issues # <<>>
    THEN [i \in 1..Len(issues) |-> <<issues[i].name, " -- ", issues[i].severity>>]
    ELSE <<"No issues detected.">>

customer_message(issues) ==
    IF issues # <<>>
    THEN [i \in 1..Len(issues) |->
            <<issues[i].name, " (", issues[i].severity, "): ",
              issues[i].recommended_action, ". ">>]
    ELSE <<"Everything is normal.">>

schedule_text(issues) ==
    IF issues # <<>> THEN <<"Tomorrow", "10", "AM">> ELSE <<"No", "appointment", "needed">>

feedback_text(issues) ==
    IF issues # <<>>
    THEN "Immediate maintenance recommended due to detected issues."
    ELSE "System operating normally."

-----------------------------------------------------------------------------
(* Health scoring: calculate_brake_health and run_maintenance, lines 252-264 *)

\* vibration is <<>> when the key is absent (None), else <<tenths>>
calculate_brake_health(vibration) ==
    IF vibration = <<>> THEN 75
    ELSE IF vibration[1] < 30 THEN 95
    ELSE IF vibration[1] < 50 THEN 80
    ELSE IF vibration[1] < 70 THEN 65
    ELSE 40

Max(a, b) == IF a >= b THEN a ELSE b

\* max(0, 100 - (engine_temp - 90) * 2), in tenths
EngineHealth(telemetry) ==
    Max(0, 1000 - (engine_temp(telemetry) - 900) * 2)

\* int((float(batteryVoltage) / 12.6) * 100)
BatteryHealth(telemetry) ==
    IntTrunc(Get(telemetry, "batteryVoltage", 126) * 100, 126)

TireLabel(telemetry) ==
    IF Get(telemetry, "tirePressure", 300) < 300 THEN "Low" ELSE "Normal"

ComponentHealth(telemetry) ==
    [engineHealth |-> EngineHealth(telemetry),
     battery      |-> BatteryHealth(telemetry),
     brakes       |-> calculate_brake_health(
                        IF Has(telemetry, "vibration")
                        THEN <<telemetry["vibration"]>> ELSE <<>>),
     tirePressure |-> TireLabel(telemetry)]

\* int((engineHealth + battery + brakes + (100 | 70)) / 4); engineHealth is in tenths
OverallHealth(component_health) ==
    IntTrunc(component_health.engineHealth
               + 10 * (component_health.battery
                       + component_health.brakes
                       + (IF component_health.tirePressure = "Normal" THEN 100 ELSE 70)),
             40)

-----------------------------------------------------------------------------
(* The two collections *)

\* workflow_collection.find_one({"vehicle_id": FIXED_VEHICLE_ID})
FindWorkflow(coll) ==
    LET hits == {i \in 1..Len(coll) : coll[i]["vehicle_id"] = FIXED_VEHICLE_ID}
    IN  IF hits = {} THEN <<>>
        ELSE <<coll[CHOOSE i \in hits : \A j \in hits : i <= j]>>

\* workflow_collection.replace_one({"vehicle_id": FIXED_VEHICLE_ID}, doc, upsert=True)
ReplaceWorkflow(coll, doc) ==
    LET hits == {i \in 1..Len(coll) : coll[i]["vehicle_id"] = FIXED_VEHICLE_ID}
    IN  IF hits = {} THEN Append(coll, doc)
        ELSE [coll EXCEPT ![CHOOSE i \in hits : \A j \in hits : i <= j] = doc]

\* The duplicate check looking for the time as the schedule text writes it.
MatchesPendingSlot_ScheduleTime(a, date) ==
    /\ a["vehicle_id"] = FIXED_VEHICLE_ID
    /\ a["date"] = date
    /\ a["time"] = "10 AM"
    /\ a["status"] = "Pending"

\* The filter of the duplicate check: same vehicle, date, time and status Pending.
MatchesPendingSlot(a, date) ==
    /\ a["vehicle_id"] = FIXED_VEHICLE_ID
    /\ a["date"] = date
    /\ a["time"] = "10:00 AM"
    /\ a["status"] = "Pending"

\* appointment_collection.find_one({vehicle_id, date, time, status: "Pending"})
FindPendingAppointment(coll, date) ==
    LET hits == {i \in 1..Len(coll) : MatchesPendingSlot(coll[i], date)}
    IN  IF hits = {} THEN <<>>
        ELSE <<coll[CHOOSE i \in hits : \A j \in hits : i <= j]>>

\* The document insert_one stores; the store assigns a fresh _id.
NewAppointment(coll, f) ==
    [_id               |-> Len(coll) + 1,
     vehicle_id        |-> FIXED_VEHICLE_ID,
     service_type      |-> [i \in 1..Len(f.issues) |-> f.issues[i].name],
     date              |-> f.schedule_text[1],
     time              |-> "10:00 AM",
     status            |-> "Pending",
     recommended_by_ai |-> TRUE,
     created_at        |-> f.timestamp_now]

-----------------------------------------------------------------------------
(* run_maintenance, telemetry path: one action per stretch between awaits *)

\* The branch test of lines 168-170.
IsQuery(data) ==
    /\ Has(data, "user_message")
    /\ ~ \E k \in {"engineTemp", "oilPressure", "batteryVoltage", "tirePressure"} :
            Has(data, k)

IdleFrame == [telemetry |-> EmptyDict]

\* One history entry, lines 276-280.
HistoryEntry(f) ==
    [timestamp |-> f.timestamp_now, telemetry |-> f.telemetry, issues |-> f.issues]

\* The history started afresh instead of loaded.
AppendHistory_Fresh(existing, entry) == <<entry>>

\* history = existing.get("history", []) if existing else []; history.append(entry)
AppendHistory(existing, entry) ==
    Append(IF existing # <<>> THEN Get(existing[1], "history", <<>>) ELSE <<>>, entry)

\* The snapshot replace_one writes, lines 287-299.
Snapshot(f) ==
    [vehicle_id                |-> FIXED_VEHICLE_ID,
     telemetry                 |-> f.telemetry,
     issues                    |-> f.issues,
     component_health          |-> f.component_health,
     overall_health_score      |-> f.overall_health,
     diagnosis_summary         |-> f.diagnosis_text,
     customer_friendly_message |-> f.customer_message,
     predicted_schedule        |-> f.schedule_text,
     feedback                  |-> feedback_text(f.issues),
     last_updated              |-> f.timestamp_now,
     history                   |-> f.history]

\* The returned body, lines 325-333.
RunResponse(f) ==
    [op |-> "run_maintenance", status_code |-> 200,
     body |-> [issues           |-> f.issues,
               anomalies        |-> f.issues,
               health_score     |-> f.overall_health,
               diagnosis_summary |-> f.diagnosis_text,
               customer_message |-> f.customer_message,
               schedule         |-> f.schedule_text,
               feedback         |-> feedback_text(f.issues)]]

Return(p, f) ==
    /\ response' = RunResponse(f)
    /\ pc' = [pc EXCEPT ![p] = "idle"]
    /\ frame' = [frame EXCEPT ![p] = IdleFrame]

\* Lines 200-270: everything computed before the first await.
run_maintenance_evaluate(p, data) ==
    /\ pc[p] = "idle"
    /\ ~IsQuery(data)
    /\ now' = now + 1
    /\ LET telemetry == Put(data, "id", FIXED_VEHICLE_ID)
           issues == DetectIssues(telemetry)
           component_health == ComponentHealth(telemetry)
       IN  frame' = [frame EXCEPT ![p] =
                [telemetry        |-> telemetry,
                 issues           |-> issues,
                 diagnosis_text   |-> diagnosis_text(issues),
                 customer_message |-> customer_message(issues),
                 component_health |-> component_health,
                 overall_health   |-> OverallHealth(component_health),
                 schedule_text    |-> schedule_text(issues),
                 timestamp_now    |-> now',
                 history          |-> <<>>]]
    /\ pc' = [pc EXCEPT ![p] = "load"]
    /\ UNCHANGED <<workflow_collection, appointment_collection, response>>

\* Lines 273-280: the read of the stored snapshot and the local append.
run_maintenance_load(p) ==
    /\ pc[p] = "load"
    /\ frame' = [frame EXCEPT ![p].history =
                    AppendHistory(FindWorkflow(workflow_collection), HistoryEntry(frame[p]))]
    /\ pc' = [pc EXCEPT ![p] = "save"]
    /\ UNCHANGED <<workflow_collection, appointment_collection, response, now>>

\* Lines 285-306: the upsert; without issues the handler returns.
run_maintenance_save(p) ==
    /\ pc[p] = "save"
    /\ workflow_collection' = ReplaceWorkflow(workflow_collection, Snapshot(frame[p]))
    /\ IF frame[p].issues # <<>>
       THEN /\ pc' = [pc EXCEPT ![p] = "find"]
            /\ UNCHANGED <<frame, response>>
       ELSE Return(p, frame[p])
    /\ UNCHANGED <<appointment_collection, now>>

\* Lines 308-314: the duplicate check; an existing Pending booking ends the handler.
run_maintenance_find(p) ==
    /\ pc[p] = "find"
    /\ IF FindPendingAppointment(appointment_collection, frame[p].schedule_text[1]) = <<>>
       THEN /\ pc' = [pc EXCEPT ![p] = "insert"]
            /\ UNCHANGED <<frame, response>>
       ELSE Return(p, frame[p])
    /\ UNCHANGED <<workflow_collection, appointment_collection, now>>

\* Lines 315-333: the insert, then the return.
run_maintenance_insert(p) ==
    /\ pc[p] = "insert"
    /\ appointment_collection' =
          Append(appointment_collection, NewAppointment(appointment_collection, frame[p]))
    /\ Return(p, frame[p])
    /\ UNCHANGED <<workflow_collection, now>>

-----------------------------------------------------------------------------
(* PATCH /appointments/{appointment_id}/status *)

\* The path parameter is any string: hex says whether it is the 24 hex digits
\* ObjectId() accepts, oid the identifier it then denotes.
PathId(hex, oid) == [hex |-> hex, oid |-> oid]

\* The identifiers tried: every stored one, one unknown, one malformed.
PathIds ==
    {PathId(TRUE, n) : n \in 1..(Len(appointment_collection) + 1)}
        \cup {PathId(FALSE, 0)}

\* AppointmentStatusUpdate.status is declared str: any string validates.
StatusInputs == {"Pending", "In Progress", "Resolved", "Cancelled"}

\* update_one({"_id": oid}, {"$set": {status, updated_at}}) on the first match
UpdateOne(coll, oid, status, at) ==
    LET hits == {i \in 1..Len(coll) : coll[i]["_id"] = oid}
    IN  IF hits = {} THEN coll
        ELSE LET i == CHOOSE i \in hits : \A j \in hits : i <= j
             IN  [coll EXCEPT ![i] = Put(Put(coll[i], "status", status), "updated_at", at)]

matched_count(coll, oid) ==
    IF \E i \in 1..Len(coll) : coll[i]["_id"] = oid THEN 1 ELSE 0

update_appointment_status(appointment_id, status) ==
    /\ IF ~appointment_id.hex
       THEN \* ObjectId(appointment_id) raises InvalidId: an unhandled server error
            /\ response' = [op |-> "update_appointment_status", status_code |-> 500,
                            body |-> "Internal Server Error"]
            /\ UNCHANGED appointment_collection
       ELSE /\ appointment_collection' =
                  UpdateOne(appointment_collection, appointment_id.oid, status, now)
            /\ response' =
                  IF matched_count(appointment_collection, appointment_id.oid) = 0
                  THEN [op |-> "update_appointment_status", status_code |-> 404,
                        body |-> "Appointment not found"]
                  ELSE [op |-> "update_appointment_status", status_code |-> 200,
                        body |-> "Appointment status updated successfully"]
    /\ UNCHANGED <<workflow_collection, pc, frame, now>>

-----------------------------------------------------------------------------
(* Strings that are searched: sequences of one-character strings *)

LowerMap ==
    ("A" :> "a") @@ ("B" :> "b") @@ ("C" :> "c") @@ ("D" :> "d") @@ ("E" :> "e") @@
    ("F" :> "f") @@ ("G" :> "g") @@ ("H" :> "h") @@ ("I" :> "i") @@ ("J" :> "j") @@
    ("K" :> "k") @@ ("L" :> "l") @@ ("M" :> "m") @@ ("N" :> "n") @@ ("O" :> "o") @@
    ("P" :> "p") @@ ("Q" :> "q") @@ ("R" :> "r") @@ ("S" :> "s") @@ ("T" :> "t") @@
    ("U" :> "u") @@ ("V" :> "v") @@ ("W" :> "w") @@ ("X" :> "x") @@ ("Y" :> "y") @@
    ("Z" :> "z")

\* str.lower()
Lower(s) == [i \in 1..Len(s) |-> IF s[i] \in DOMAIN LowerMap THEN LowerMap[s[i]] ELSE s[i]]

\* kw in s
Contains(s, kw) ==
    \E i \in 1..(Len(s) - Len(kw) + 1) : SubSeq(s, i, i + Len(kw) - 1) = kw

\* "health"
KwHealth ==
    <<"h", "e", "a", "l", "t", "h">>

\* "issue"
KwIssue ==
    <<"i", "s", "s", "u", "e">>

\* "problem"
KwProblem ==
    <<"p", "r", "o", "b", "l", "e", "m">>

\* "schedule"
KwSchedule ==
    <<"s", "c", "h", "e", "d", "u", "l", "e">>

\* "maintenance"
KwMaintenance ==
    <<"m", "a", "i", "n", "t", "e", "n", "a", "n", "c", "e">>

\* "engine temperature"
KwEngineTemperature ==
    <<"e", "n", "g", "i", "n", "e", " ", "t", "e", "m", "p", "e", "r", "a", "t", "u",
      "r", "e">>

\* "engine temp"
KwEngineTemp ==
    <<"e", "n", "g", "i", "n", "e", " ", "t", "e", "m", "p">>

\* The messages tried.
\* "What's my vehicle health?"
MsgVehicleHealth ==
    <<"W", "h", "a", "t", "'", "s", " ", "m", "y", " ", "v", "e", "h", "i", "c", "l",
      "e", " ", "h", "e", "a", "l", "t", "h", "?">>

\* "Any ISSUE?"
MsgAnyIssue ==
    <<"A", "n", "y", " ", "I", "S", "S", "U", "E", "?">>

\* "problem or healthy"
MsgHealthProblem ==
    <<"p", "r", "o", "b", "l", "e", "m", " ", "o", "r", " ", "h", "e", "a", "l", "t",
      "h", "y">>

\* "schedule my problem"
MsgProblemSchedule ==
    <<"s", "c", "h", "e", "d", "u", "l", "e", " ", "m", "y", " ", "p", "r", "o", "b",
      "l", "e", "m">>

\* "Engine Temp now"
MsgEngineTemp ==
    <<"E", "n", "g", "i", "n", "e", " ", "T", "e", "m", "p", " ", "n", "o", "w">>

\* "maintenance: engine temperature"
MsgEngineTemperatureMaintenance ==
    <<"m", "a", "i", "n", "t", "e", "n", "a", "n", "c", "e", ":", " ", "e", "n", "g",
      "i", "n", "e", " ", "t", "e", "m", "p", "e", "r", "a", "t", "u", "r", "e">>

\* "engine temperature?"
MsgEngineTemperature ==
    <<"e", "n", "g", "i", "n", "e", " ", "t", "e", "m", "p", "e", "r", "a", "t", "u",
      "r", "e", "?">>

\* "hello"
MsgHello ==
    <<"h", "e", "l", "l", "o">>

Messages ==
    {MsgVehicleHealth,
     MsgAnyIssue,
     MsgHealthProblem,
     MsgProblemSchedule,
     MsgEngineTemp,
     MsgEngineTemperatureMaintenance,
     MsgEngineTemperature,
     MsgHello}

-----------------------------------------------------------------------------
(* run_maintenance, natural-language path, lines 168-195, and /voice-query *)

\* The keyword chain with the issue test ahead of the health test.
QueryReply_IssuesFirst(data, doc) ==
    LET user_question == Lower(data["user_message"])
    IN  IF doc = <<>>
        THEN <<"Your vehicle is healthy. No issues detected.">>
        ELSE IF Contains(user_question, KwIssue) \/ Contains(user_question, KwProblem)
        THEN IF Get(doc[1], "issues", <<>>) = <<>>
             THEN <<"There are no current issues.">>
             ELSE <<"Current issues: ",
                    [i \in 1..Len(doc[1]["issues"]) |-> doc[1]["issues"][i].name]>>
        ELSE IF Contains(user_question, KwHealth)
        THEN <<"Your vehicle health score is ",
               Get(doc[1], "overall_health_score", 100), "%">>
        ELSE IF Contains(user_question, KwSchedule) \/ Contains(user_question, KwMaintenance)
        THEN <<"Your maintenance is scheduled for ",
               Get(doc[1], "predicted_schedule", <<"Not", "scheduled">>), ".">>
        ELSE IF Contains(user_question, KwEngineTemperature)
                  \/ Contains(user_question, KwEngineTemp)
        THEN <<"Your engine temperature is ",
               Get(Get(doc[1], "telemetry", EmptyDict), "engineTemp", Text("Not available")),
               ".">>
        ELSE <<"Ask me about health, issues or schedule.">>

\* The customer_message of the keyword chain, given the find_one result.
QueryReply(data, doc) ==
    LET user_question == Lower(data["user_message"])
    IN  IF doc = <<>>
        THEN <<"Your vehicle is healthy. No issues detected.">>
        ELSE IF Contains(user_question, KwHealth)
        THEN <<"Your vehicle health score is ",
               Get(doc[1], "overall_health_score", 100), "%">>
        ELSE IF Contains(user_question, KwIssue) \/ Contains(user_question, KwProblem)
        THEN IF Get(doc[1], "issues", <<>>) = <<>>
             THEN <<"There are no current issues.">>
             ELSE <<"Current issues: ",
                    [i \in 1..Len(doc[1]["issues"]) |-> doc[1]["issues"][i].name]>>
        ELSE IF Contains(user_question, KwSchedule) \/ Contains(user_question, KwMaintenance)
        THEN <<"Your maintenance is scheduled for ",
               Get(doc[1], "predicted_schedule", <<"Not", "scheduled">>), ".">>
        ELSE IF Contains(user_question, KwEngineTemperature)
                  \/ Contains(user_question, KwEngineTemp)
        THEN <<"Your engine temperature is ",
               Get(Get(doc[1], "telemetry", EmptyDict), "engineTemp", Text("Not available")),
               ".">>
        ELSE <<"Ask me about health, issues or schedule.">>

\* POST /run-maintenance with a message and no telemetry field.
run_maintenance_query(data) ==
    /\ IsQuery(data)
    /\ response' = [op |-> "run_maintenance", status_code |-> 200,
                    body |-> [customer_message |->
                                QueryReply(data, FindWorkflow(workflow_collection))]]
    /\ UNCHANGED <<workflow_collection, appointment_collection, pc, frame, now>>

\* POST /voice-query: the message wrapped as a payload and handed to run_maintenance.
voice_query(message) ==
    LET payload == [user_message |-> message]
    IN  /\ IsQuery(payload)
        /\ response' = [op |-> "voice_query", status_code |-> 200,
                        body |-> [reply |->
                                    QueryReply(payload, FindWorkflow(workflow_collection))]]
        /\ UNCHANGED <<workflow_collection, appointment_collection, pc, frame, now>>

-----------------------------------------------------------------------------
(* GET /analytics/full *)

\* s[-n:]
LastN(s, n) == SubSeq(s, Max(1, Len(s) - n + 1), Len(s))

HasIssues(h) == h.issues # <<>>

\* build_series(key, safe_range), lines 456-468
build_series(history, key, safe_range) ==
    LET window == LastN(history, 24)
        picked == {i \in 1..Len(window) : Has(window[i].telemetry, key)}
        nth(k) == CHOOSE i \in picked : Cardinality({j \in picked : j <= i}) = k
    IN  [values     |-> [k \in 1..Cardinality(picked) |->
                            [time  |-> <<"%H:%M", window[nth(k)].timestamp>>,
                             value |-> IF key = "engineTemp"
                                       THEN ParseEngineTemp(window[nth(k)].telemetry[key])
                                       ELSE window[nth(k)].telemetry[key]]],
         safe_range |-> safe_range]

\* lines 478-487
Violations(doc) ==
    LET issues == Get(doc, "issues", <<>>)
    IN  [i \in 1..Len(issues) |->
            [parameter       |-> issues[i].name,
             safe_range      |-> "See specs",
             current         |-> "Out of range",
             deviation       |-> issues[i].severity,
             breach_duration |-> "-",
             status          |-> IF issues[i].severity = "high"
                                 THEN "Critical" ELSE "Moderate"]]

TimelineEntry(h) ==
    [time        |-> <<"Day %d - %H:%M", h.timestamp>>,
     stage       |-> h.issues[1].name,
     description |-> h.issues[1].recommended_action]

\* The timeline over a window one entry short.
FailureTimeline_LastFive(history) ==
    LET kept == SelectSeq(LastN(history, 5), HasIssues)
    IN  [i \in 1..Len(kept) |-> TimelineEntry(kept[i])]

\* lines 490-497: the entries with issues among the last six of history
FailureTimeline(history) ==
    LET kept == SelectSeq(LastN(history, 6), HasIssues)
    IN  [i \in 1..Len(kept) |-> TimelineEntry(kept[i])]

get_full_analytics ==
    /\ LET doc == FindWorkflow(workflow_collection)
       IN  response' =
             IF doc = <<>>
             THEN [op |-> "get_full_analytics", status_code |-> 200,
                   body |-> [sensors |-> EmptyDict, violations |-> <<>>, timeline |-> <<>>]]
             ELSE LET history == Get(doc[1], "history", <<>>)
                  IN  [op |-> "get_full_analytics", status_code |-> 200,
                       body |-> [sensors |->
                                   [engine_temperature |->
                                        build_series(history, "engineTemp", <<70, 95>>),
                                    oil_pressure |->
                                        build_series(history, "oilPressure", <<25, 65>>),
                                    battery_voltage |->
                                        build_series(history, "batteryVoltage", <<12, 14>>),
                                    tire_pressure |->
                                        build_series(history, "tirePressure", <<32, 36>>)],
                                 violations |-> Violations(doc[1]),
                                 timeline   |-> FailureTimeline(history)]]
    /\ UNCHANGED <<workflow_collection, appointment_collection, pc, frame, now>>

-----------------------------------------------------------------------------
(* Inputs *)

\* The reading of the documented example: two issues, score 86.
HotReading ==
    [engineTemp |-> TempStr(1050, TRUE), oilPressure |-> 150,
     batteryVoltage |-> 126, tirePressure |-> 320]

\* A reading with no issue.
CoolReading ==
    [engineTemp |-> TempStr(950, FALSE), oilPressure |-> 300,
     batteryVoltage |-> 124, tirePressure |-> 320, vibration |-> 20]

\* A reading with one issue that also carries a message: it has a telemetry
\* field, so it is evaluated, not answered.
FlatTireReading == [tirePressure |-> 280, user_message |-> MsgVehicleHealth]

Readings == {HotReading, CoolReading}

SeqReadings == {HotReading, CoolReading, FlatTireReading}

\* Message-only payloads; vibration is not one of the four telemetry fields tested.
QueryPayloads ==
    {[user_message |-> m] : m \in Messages}
        \cup {[user_message |-> MsgAnyIssue, vibration |-> 20]}

\* An optional field: <<>> leaves the key out.
Field(k, x) == IF x = <<>> THEN EmptyDict ELSE (k :> x[1])

Optional(S) == {<<>>} \cup {<<x>> : x \in S}

Window(c) == (c - Span)..(c + Span)

\* Engine temperatures (tenths): around the threshold 100, the default 90,
\* and around 140 where engineHealth reaches 0.
EngineTempInputs ==
    Optional({TempStr(n, u) : n \in Window(1000) \cup {0, 900, 1395, 1400, 1600},
                              u \in BOOLEAN})

OilPressureInputs == Optional(199..201)

\* Battery voltages (tenths): around the threshold 12, the default 12.6,
\* multiples of 6.3 (whole scores), zero and a negative one.
BatteryVoltageInputs == Optional(Window(120) \cup {-5, 0, 63, 126, 189, 252})

TirePressureInputs == Optional(299..301)

VibrationInputs == Optional({29, 30, 49, 50, 69, 70})

AllReadings ==
    {Field("engineTemp", e) @@ Field("oilPressure", o) @@ Field("batteryVoltage", b)
        @@ Field("tirePressure", t) @@ Field("vibration", v) :
     e \in EngineTempInputs, o \in OilPressureInputs, b \in BatteryVoltageInputs,
     t \in TirePressureInputs, v \in VibrationInputs}

-----------------------------------------------------------------------------
(* Specifications *)

NoResponse == [op |-> "none", status_code |-> 0, body |-> ""]

Init ==
    /\ workflow_collection = <<>>
    /\ appointment_collection = <<>>
    /\ pc = [p \in Procs |-> "idle"]
    /\ frame = [p \in Procs |-> IdleFrame]
    /\ response = NoResponse
    /\ now = 0

\* Requests arrive at any time and their handlers interleave at every await.
Next ==
    \/ /\ now < MaxRuns
       /\ \E p \in Procs, data \in Readings : run_maintenance_evaluate(p, data)
    \/ \E p \in Procs : run_maintenance_load(p)
    \/ \E p \in Procs : run_maintenance_save(p)
    \/ \E p \in Procs : run_maintenance_find(p)
    \/ \E p \in Procs : run_maintenance_insert(p)
    \/ \E id \in PathIds, status \in StatusInputs :
          update_appointment_status(id, status)

Spec == Init /\ [][Next]_vars

AllIdle == \A p \in Procs : pc[p] = "idle"

Step(p) ==
    \/ run_maintenance_load(p)
    \/ run_maintenance_save(p)
    \/ run_maintenance_find(p)
    \/ run_maintenance_insert(p)

\* Non-overlapping evaluations: a telemetry evaluation starts only when none
\* is in flight.  Status updates arrive at any time.
SeqNext ==
    \/ /\ AllIdle
       /\ now < MaxSeqRuns
       /\ \E p \in Procs, data \in Readings : run_maintenance_evaluate(p, data)
    \/ \E p \in Procs : Step(p)
    \/ \E id \in PathIds, status \in StatusInputs :
          update_appointment_status(id, status)

SeqSpec == Init /\ [][SeqNext]_vars

\* Non-overlapping evaluations, and questions at any time.
QueryNext ==
    \/ /\ AllIdle
       /\ now < MaxQueryRuns
       /\ \E p \in Procs, data \in SeqReadings : run_maintenance_evaluate(p, data)
    \/ \E p \in Procs : Step(p)
    \/ \E data \in QueryPayloads : run_maintenance_query(data)
    \/ \E m \in Messages : voice_query(m)

QuerySpec == Init /\ [][QueryNext]_vars

\* Non-overlapping evaluations and reads of the analytics.
TimelineNext ==
    \/ /\ AllIdle
       /\ now < MaxHistory
       /\ \E p \in Procs, data \in SeqReadings : run_maintenance_evaluate(p, data)
    \/ \E p \in Procs : Step(p)
    \/ get_full_analytics

TimelineSpec == Init /\ [][TimelineNext]_vars

\* One evaluation of any reading, from the empty store.
EvalNext ==
    \/ /\ AllIdle
       /\ workflow_collection = <<>>
       /\ \E p \in Procs, data \in AllReadings : run_maintenance_evaluate(p, data)
    \/ \E p \in Procs : Step(p)

EvalSpec == Init /\ [][EvalNext]_vars

-----------------------------------------------------------------------------
(* Properties *)

\* The stored snapshot of the fixed vehicle, <<>> when there is none.
Stored == FindWorkflow(workflow_collection)

StoredHistory == IF Stored = <<>> THEN <<>> ELSE Stored[1]["history"]

IsRunResult(r) == r.op = "run_maintenance" /\ "issues" \in DOMAIN r.body

\* Evaluations that have read the clock and not yet written the snapshot.
Unsaved == {p \in Procs : pc[p] \in {"load", "save"}}

\* C1: with non-overlapping evaluations, the stored history has one entry per
\* evaluation that has written, in call order (the k-th entry is the k-th
\* call's), nothing is stored before the first write, and the snapshot's
\* telemetry, issues and score are those of the latest entry's evaluation:
\* a run that has just returned reported exactly the stored issues and score.
C1_OneEntryPerRun ==
    LET n == now - Cardinality(Unsaved)
    IN  /\ Len(workflow_collection) <= 1
        /\ (n = 0) <=> (Stored = <<>>)
        /\ Len(StoredHistory) = n
        /\ \A i \in 1..Len(StoredHistory) : StoredHistory[i].timestamp = i
        /\ n > 0 =>
              /\ Stored[1]["telemetry"] = StoredHistory[n].telemetry
              /\ Stored[1]["issues"] = StoredHistory[n].issues
              /\ Stored[1]["last_updated"] = n
              /\ (AllIdle /\ IsRunResult(response)) =>
                    /\ response.body.issues = Stored[1]["issues"]
                    /\ response.body.health_score = Stored[1]["overall_health_score"]

\* C1 witness: three evaluations have completed, the last one without issues
\* after one with issues, and its result is the response.
C1_Witness ==
    /\ AllIdle
    /\ Len(StoredHistory) = 3
    /\ StoredHistory[2].issues # <<>>
    /\ Stored[1]["issues"] = <<>>
    /\ IsRunResult(response)

\* C2: after two or more non-overlapping evaluations that each found an issue,
\* with no appointment ever updated, exactly one appointment is stored: it is
\* Pending, and it is the one the first evaluation inserted.
C2_OnePendingAfterRepeats ==
    ( /\ AllIdle
      /\ Len(StoredHistory) >= 2
      /\ \A i \in 1..Len(StoredHistory) : StoredHistory[i].issues # <<>>
      /\ \A i \in 1..Len(appointment_collection) :
            "updated_at" \notin DOMAIN appointment_collection[i] )
    => /\ Len(appointment_collection) = 1
       /\ appointment_collection[1]["status"] = "Pending"
       /\ appointment_collection[1]["vehicle_id"] = FIXED_VEHICLE_ID
       /\ appointment_collection[1]["created_at"] = StoredHistory[1].timestamp

\* C2 witness: three issue-producing evaluations have completed and no
\* appointment was updated.
C2_Witness ==
    /\ AllIdle
    /\ Len(StoredHistory) = 3
    /\ \A i \in 1..3 : StoredHistory[i].issues # <<>>
    /\ Len(appointment_collection) = 1
    /\ "updated_at" \notin DOMAIN appointment_collection[1]

\* The reading a stored snapshot was computed from.
StoredReading == Stored[1]["telemetry"]

ReadingOr(k, default) ==
    IF k \in DOMAIN StoredReading THEN StoredReading[k] ELSE default

Matched(rule) == rule.matches

\* The four rules as the claim states them, against the stored reading.
ClaimedIssues ==
    LET temp == IF "engineTemp" \in DOMAIN StoredReading
                THEN StoredReading["engineTemp"].num ELSE 900
        rules ==
            << [matches |-> temp > 1000,
                name |-> "Engine Temperature High", severity |-> "high", confidence |-> 90],
               [matches |-> ReadingOr("oilPressure", 300) < 200,
                name |-> "Oil Pressure Low", severity |-> "high", confidence |-> 85],
               [matches |-> ReadingOr("batteryVoltage", 126) < 120,
                name |-> "Battery Voltage Low", severity |-> "medium", confidence |-> 75],
               [matches |-> ReadingOr("tirePressure", 320) < 300,
                name |-> "Tire Pressure Low", severity |-> "medium", confidence |-> 70] >>
    IN  SelectSeq(rules, Matched)

\* C3: the issues a telemetry evaluation returns are exactly the rules its
\* reading matches, once each, in the order engine, oil, battery, tire, with
\* the stated severity and confidence; a value on its threshold matches nothing.
C3_IssuesAreTheMatchingRules ==
    (IsRunResult(response) /\ Stored # <<>>) =>
        /\ Len(response.body.issues) = Len(ClaimedIssues)
        /\ \A i \in 1..Len(ClaimedIssues) :
              /\ response.body.issues[i].name = ClaimedIssues[i].name
              /\ response.body.issues[i].severity = ClaimedIssues[i].severity
              /\ response.body.issues[i].confidence = ClaimedIssues[i].confidence

\* C3 witness: a reading whose engine temperature is exactly 100 (with its
\* unit suffix) and whose other three values are below their thresholds was
\* evaluated: three issues, none for the engine.
C3_Witness ==
    /\ IsRunResult(response)
    /\ Stored # <<>>
    /\ "engineTemp" \in DOMAIN StoredReading
    /\ StoredReading["engineTemp"] = [num |-> 1000, unit |-> TRUE]
    /\ Len(response.body.issues) = 3
    /\ response.body.issues[1].name = "Oil Pressure Low"

Abs(x) == IF x >= 0 THEN x ELSE -x

\* x is an integer nearest to num/den (either neighbour of a tie).
IsNearest(x, num, den) == 2 * Abs(den * x - num) <= den

\* x is num/den with its fraction dropped.
IsTruncated(x, num, den) ==
    IF num >= 0
    THEN den * x <= num /\ num < den * (x + 1)
    ELSE den * (x - 1) < num /\ num <= den * x

\* The score's inputs as the claim states them, from the stored reading:
\* engineHealth in tenths, the battery voltage in tenths, brakes, tireScore.
ClaimedEngineHealth ==
    LET temp == IF "engineTemp" \in DOMAIN StoredReading
                THEN StoredReading["engineTemp"].num ELSE 900
    IN  IF 1000 - (temp - 900) * 2 > 0 THEN 1000 - (temp - 900) * 2 ELSE 0

ClaimedBrakes ==
    IF "vibration" \notin DOMAIN StoredReading THEN 75
    ELSE IF StoredReading["vibration"] < 30 THEN 95
    ELSE IF StoredReading["vibration"] < 50 THEN 80
    ELSE IF StoredReading["vibration"] < 70 THEN 65
    ELSE 40

ClaimedTireScore ==
    IF "tirePressure" \in DOMAIN StoredReading /\ StoredReading["tirePressure"] < 300
    THEN 70 ELSE 100

BatteryScores == -10..250

\* C4 as stated: the returned health_score is the mean of the four component
\* scores rounded to the nearest integer, the battery score being
\* batteryVoltage / 12.6 * 100 rounded to the nearest integer.
C4_ScoreIsRounded ==
    (IsRunResult(response) /\ Stored # <<>>) =>
        \E b \in BatteryScores :
            /\ IsNearest(b, ReadingOr("batteryVoltage", 126) * 100, 126)
            /\ IsNearest(response.body.health_score,
                         ClaimedEngineHealth + 10 * (b + ClaimedBrakes + ClaimedTireScore),
                         40)

\* C4 amended: both roundings are truncations toward zero (int()): the battery
\* score is batteryVoltage / 12.6 * 100 with its fraction dropped, and the
\* health_score is the mean of the four component scores with its fraction
\* dropped.
C4_ScoreIsTruncated ==
    (IsRunResult(response) /\ Stored # <<>>) =>
        \E b \in BatteryScores :
            /\ IsTruncated(b, ReadingOr("batteryVoltage", 126) * 100, 126)
            /\ IsTruncated(response.body.health_score,
                           ClaimedEngineHealth + 10 * (b + ClaimedBrakes + ClaimedTireScore),
                           40)

\* C4 witness: the reading 99.7 degrees, 12.3 V, vibration 6.9, tire pressure
\* 30.1 was evaluated: the components are 80.6, 97 (97.6 truncated), 65 and
\* 100, their mean 85.65, and the score returned is 85.
C4_Witness ==
    /\ IsRunResult(response)
    /\ Stored # <<>>
    /\ ReadingOr("engineTemp", [num |-> 900, unit |-> FALSE]).num = 997
    /\ ReadingOr("batteryVoltage", 126) = 123
    /\ ReadingOr("vibration", 0) = 69
    /\ ReadingOr("tirePressure", 0) = 301
    /\ response.body.health_score = 85

\* The stored appointments a path identifier denotes.
Denoted(id) ==
    {i \in 1..Len(appointment_collection) :
        id.hex /\ appointment_collection[i]["_id"] = id.oid}

\* What a status update may change of an appointment: status and updated_at.
OnlyStatusChanged(before, after) ==
    /\ DOMAIN after = DOMAIN before \cup {"status", "updated_at"}
    /\ \A k \in DOMAIN before \ {"status", "updated_at"} : after[k] = before[k]

\* C5: a status update whose identifier matches no stored appointment answers
\* not-found (404) and changes no appointment; one whose identifier matches
\* changes only that appointment's status and updated_at; no status update
\* adds or removes an appointment or changes the workflow snapshot.
C5_StatusUpdateContract ==
    [][\A id \in PathIds, status \in StatusInputs :
          update_appointment_status(id, status) =>
             /\ Len(appointment_collection') = Len(appointment_collection)
             /\ workflow_collection' = workflow_collection
             /\ IF Denoted(id) = {}
                THEN /\ response'.status_code = 404
                     /\ appointment_collection' = appointment_collection
                ELSE \A i \in 1..Len(appointment_collection) :
                        IF i \in Denoted(id)
                        THEN OnlyStatusChanged(appointment_collection[i],
                                               appointment_collection'[i])
                        ELSE appointment_collection'[i] = appointment_collection[i]
      ]_vars

\* C6: every stored appointment has status Pending, In Progress or Resolved,
\* and the appointments stored so far are all still stored (their identifiers
\* are 1..n in insertion order).
C6_StatusInDomain ==
    \A i \in 1..Len(appointment_collection) :
        /\ appointment_collection[i]["status"] \in {"Pending", "In Progress", "Resolved"}
        /\ appointment_collection[i]["_id"] = i

\* C7: every write of the snapshot extends the stored history by exactly one
\* entry: the history stored before is a prefix of the history stored after.
C7_HistoryAppendOnly ==
    [][workflow_collection' # workflow_collection =>
          LET before == StoredHistory
              after  == StoredHistory'
          IN  /\ Len(after) = Len(before) + 1
              /\ SubSeq(after, 1, Len(before)) = before
      ]_vars

\* C10: at most one stored appointment is Pending for the same vehicle, date
\* and time.
C10_OnePendingPerSlot ==
    \A i, j \in 1..Len(appointment_collection) :
        ( /\ appointment_collection[i]["status"] = "Pending"
          /\ appointment_collection[j]["status"] = "Pending"
          /\ appointment_collection[i]["vehicle_id"] = appointment_collection[j]["vehicle_id"]
          /\ appointment_collection[i]["date"] = appointment_collection[j]["date"]
          /\ appointment_collection[i]["time"] = appointment_collection[j]["time"] )
        => i = j

Mentions(message, kw) == Contains(Lower(message), kw)

\* The keyword class of a message, in the claimed order of precedence.
KeywordClass(message) ==
    IF Mentions(message, KwHealth) THEN "health"
    ELSE IF Mentions(message, KwIssue) \/ Mentions(message, KwProblem) THEN "issues"
    ELSE IF Mentions(message, KwSchedule) \/ Mentions(message, KwMaintenance) THEN "schedule"
    ELSE IF Mentions(message, KwEngineTemperature) \/ Mentions(message, KwEngineTemp)
    THEN "engine"
    ELSE "help"

\* The reply the claim gives a message, from the stored snapshot.
ClaimedReply(message) ==
    IF Stored = <<>> THEN <<"Your vehicle is healthy. No issues detected.">>
    ELSE CASE KeywordClass(message) = "health" ->
                <<"Your vehicle health score is ", Stored[1]["overall_health_score"], "%">>
           [] KeywordClass(message) = "issues" ->
                IF Stored[1]["issues"] = <<>>
                THEN <<"There are no current issues.">>
                ELSE <<"Current issues: ",
                       [i \in 1..Len(Stored[1]["issues"]) |-> Stored[1]["issues"][i].name]>>
           [] KeywordClass(message) = "schedule" ->
                <<"Your maintenance is scheduled for ", Stored[1]["predicted_schedule"], ".">>
           [] KeywordClass(message) = "engine" ->
                <<"Your engine temperature is ",
                  IF "engineTemp" \in DOMAIN Stored[1]["telemetry"]
                  THEN Stored[1]["telemetry"]["engineTemp"]
                  ELSE [text |-> "Not available"], ".">>
           [] OTHER -> <<"Ask me about health, issues or schedule.">>

\* C8: a message-only request, and every /voice-query, is answered from the
\* stored snapshot by the first keyword class the message matches, in the
\* order health, issue/problem, schedule/maintenance, engine temperature,
\* else the help text; with no snapshot the reply is the canned healthy
\* message; a stored score of 86 and "What's my vehicle health?" give
\* "Your vehicle health score is 86%".
C8_ReplyByFirstKeyword ==
    [][/\ \A m \in Messages :
            voice_query(m) =>
               /\ response'.body.reply = ClaimedReply(m)
               /\ (m = MsgVehicleHealth /\ Stored # <<>>
                     /\ Stored[1]["overall_health_score"] = 86)
                  => response'.body.reply = <<"Your vehicle health score is ", 86, "%">>
       /\ \A data \in QueryPayloads :
            run_maintenance_query(data) =>
               response'.body.customer_message = ClaimedReply(data["user_message"])
      ]_vars

\* C8 witness: the snapshot of the documented example (score 86) is stored and
\* a /voice-query was answered with its score.
C8_Witness ==
    /\ Stored # <<>>
    /\ Stored[1]["overall_health_score"] = 86
    /\ response.op = "voice_query"
    /\ response.body.reply = <<"Your vehicle health score is ", 86, "%">>

\* The timeline entry of the history entry at index i.
ShowsEntry(shown, h) ==
    /\ shown.stage = h.issues[1].name
    /\ shown.description = h.issues[1].recommended_action
    /\ shown.time[2] = h.timestamp

\* timeline lists exactly the history entries at the indices idx, in order.
ListsEntries(timeline, history, idx) ==
    /\ Len(timeline) = Cardinality(idx)
    /\ \A i \in idx :
          ShowsEntry(timeline[Cardinality({j \in idx : j <= i})], history[i])

\* C9 as stated: the timeline lists the most recent history entries that had
\* an issue, up to six of them, in history order; entries without issues
\* never displace one.
C9_TimelineOfRecentFailures ==
    [][get_full_analytics =>
          LET failures == {i \in 1..Len(StoredHistory) : StoredHistory[i].issues # <<>>}
              recent == {i \in failures : Cardinality({j \in failures : j >= i}) <= 6}
          IN  ListsEntries(response'.body.timeline, StoredHistory, recent)
      ]_vars

\* C9 amended: the timeline lists the entries that had an issue among the six
\* most recent history entries, in history order, each with the name and
\* recommended action of its first issue; an entry without issues is not
\* listed but does take one of the six places.
C9_TimelineOfLastSixEntries ==
    [][get_full_analytics =>
          LET n == Len(StoredHistory)
              shown == {i \in 1..n : i > n - 6 /\ StoredHistory[i].issues # <<>>}
          IN  ListsEntries(response'.body.timeline, StoredHistory, shown)
      ]_vars

\* C9 witness: seven evaluations are stored, all but the second with issues,
\* and the analytics answered with five entries, the third to the seventh:
\* the first entry's failure is not listed although only six failures exist.
C9_Witness ==
    /\ Len(StoredHistory) = 7
    /\ StoredHistory[1].issues # <<>>
    /\ StoredHistory[2].issues = <<>>
    /\ response.op = "get_full_analytics"
    /\ Len(response.body.timeline) = 5
    /\ response.body.timeline[1].time[2] = 3
    /\ response.body.timeline[5].time[2] = 7

=============================================================================
